---- MODULE Spec2Model ----
(***************************************************************************)
(* Control plane of the virtio-net device of cloud-hypervisor              *)
(* (virtio-devices/src/net_util.rs): the control-virtqueue command         *)
(* processor (CtrlVirtio::process_cvq / process_mq), the control event     *)
(* loop (NetCtrlEpollHandler::run_ctrl) and the configuration-space        *)
(* builder (build_net_config_space_with_mq).                               *)
(***************************************************************************)
EXTENDS Integers, Sequences, FiniteSets, TLC

VARIABLES
    mem,            \* guest memory: byte at each mapped guest address
    queue,          \* CtrlVirtio.queue: avail chains, next_avail, used ring, avail_event
    last,           \* record of the most recent process_cvq call (observation only)
    config,         \* VirtioNetConfig (the fields the code writes)
    built,          \* the latest build_net_config_space_with_mq call (observation only)
    avail_features, \* the device's feature bitmask, as the set of feature bit numbers
    pc,             \* position of the worker thread inside run_ctrl
    events,         \* events returned by the last epoll::wait, not yet handled
    queue_evt,      \* counter of ctrl_q.queue_evt (eventfd)
    kill_evt,       \* counter of kill_evt (eventfd)
    pause_evt,      \* counter of pause_evt (eventfd)
    paused,         \* the shared AtomicBool
    token,          \* the worker thread's park token (set by unpark)
    mgmt,           \* position of the device-management thread
    epoll_file,     \* "none" | "open" | "closed": the epoll file descriptor
    obs             \* history of the worker (observation only)

vars == <<mem, queue, last, config, avail_features, built, pc, events, queue_evt,
          kill_evt, pause_evt, paused, token, mgmt, epoll_file, obs>>

cvqVars == <<mem, queue, last>>
cfgVars == <<config, avail_features, built>>
loopVars == <<pc, events, queue_evt, kill_evt, pause_evt, paused, token, mgmt,
              epoll_file, obs>>

----------------------------------------------------------------------------
(* Bounds of the model *)

\* chains the guest makes available in the command-processor specification
MaxChains == 2
\* chains the guest makes available in the event-loop specifications
MaxLoopChains == 1
\* cap of an eventfd counter (writes are refused above it)
MaxEvt == 2
\* chains the guest submits back to back in the notification specification
MaxSubmits == 2

----------------------------------------------------------------------------
(* Program constants *)

QUEUE_SIZE == 256
KILL_EVENT == 3
PAUSE_EVENT == 4
CTRL_QUEUE_EVENT == 0
\* virtio_bindings::bindings::virtio_net
VIRTIO_NET_CTRL_MQ == 4
VIRTIO_NET_CTRL_MQ_VQ_PAIRS_SET == 0
VIRTIO_NET_CTRL_MQ_VQ_PAIRS_MIN == 1
VIRTIO_NET_CTRL_MQ_VQ_PAIRS_MAX == 32768
VIRTIO_NET_F_MQ == 22
VIRTIO_NET_F_MAC == 5

U16 == 65536
U8 == 256

----------------------------------------------------------------------------
(* Guest memory: one slot of 5 bytes per descriptor-chain head index        *)
(* (2-byte header, 2-byte payload, 1-byte status); every address from       *)
(* MemSize on is unmapped.                                                  *)

SlotSize == 2 + 2 + 1
NSlots == IF MaxChains > MaxLoopChains THEN MaxChains ELSE MaxLoopChains
MemSize == SlotSize * NSlots
Addr == 0 .. (MemSize - 1)
BadAddr == MemSize
HdrAddr(k) == SlotSize * k
PayAddr(k) == SlotSize * k + 2
StatAddr(k) == SlotSize * k + 4
\* the byte the guest leaves in a status buffer before submitting
StatusInit == U8 - 1

\* Bytes::read_obj::<u16>: native (little-endian) load of two bytes, or a fault
read_obj_u16(m, addr) ==
    IF addr \in Addr /\ (addr + 1) \in Addr
    THEN [ok |-> TRUE, val |-> m[addr] + U8 * m[addr + 1]]
    ELSE [ok |-> FALSE, val |-> 0]

\* Bytes::write_obj::<u8>: store of one byte, or a fault
write_obj_u8(m, v, addr) ==
    IF addr \in Addr
    THEN [ok |-> TRUE, mem |-> [m EXCEPT ![addr] = v % U8]]
    ELSE [ok |-> FALSE, mem |-> m]

----------------------------------------------------------------------------
(* Descriptor chains: the cursor the virtqueue library hands out *)

has_next(dc) == dc.pos < Len(dc.descs)
next_descriptor(dc) == [dc EXCEPT !.pos = @ + 1]
desc_addr(dc) == dc.descs[dc.pos].addr
desc_len(dc) == dc.descs[dc.pos].len

NoChain == [index |-> QUEUE_SIZE, descs |-> << >>, pos |-> 0]

\* Queue::iter(mem).next(): the next available chain, advancing next_avail
iter_next(q) ==
    IF q.next_avail < Len(q.avail)
    THEN [some |-> TRUE, chain |-> q.avail[q.next_avail + 1],
          queue |-> [q EXCEPT !.next_avail = @ + 1]]
    ELSE [some |-> FALSE, chain |-> NoChain, queue |-> q]

\* Queue::add_used(mem, desc_index, len)
add_used(q, desc_index, len) ==
    [q EXCEPT !.used = Append(@, [id |-> desc_index, len |-> len])]

\* Queue::update_avail_event(mem)
update_avail_event(q) == [q EXCEPT !.avail_event = q.next_avail]

----------------------------------------------------------------------------
(* CtrlVirtio::process_mq *)

\* faulty variant: the upper bound of the range check is exclusive
invalid_queue_pairs_strict(queue_pairs) ==
    (queue_pairs < VIRTIO_NET_CTRL_MQ_VQ_PAIRS_MIN % U16)
    \/ (queue_pairs >= VIRTIO_NET_CTRL_MQ_VQ_PAIRS_MAX % U16)

\* faulty variant: the lower bound of the range check is missing
invalid_queue_pairs_nomin(queue_pairs) ==
    queue_pairs > VIRTIO_NET_CTRL_MQ_VQ_PAIRS_MAX % U16

\* the range check on the queue-pair count (both constants cast to u16)
invalid_queue_pairs(queue_pairs) ==
    (queue_pairs < VIRTIO_NET_CTRL_MQ_VQ_PAIRS_MIN % U16)
    \/ (queue_pairs > VIRTIO_NET_CTRL_MQ_VQ_PAIRS_MAX % U16)

\* faulty variant: a chain that ends early is taken as a success
no_next_descriptor_ok(m, rds) ==
    [res |-> "Ok", mem |-> m, reads |-> rds, writes |-> {}]

\* `else { return Err(Error::NoQueuePairsNum) }` of the two has_next() checks
no_next_descriptor(m, rds) ==
    [res |-> "NoQueuePairsNum", mem |-> m, reads |-> rds, writes |-> {}]

process_mq(m, avail_desc) ==
    IF ~has_next(avail_desc)
    THEN no_next_descriptor(m, {})
    ELSE
      LET mq_desc == next_descriptor(avail_desc)
          rd == read_obj_u16(m, desc_addr(mq_desc))
          queue_pairs == rd.val
          rds == {desc_addr(mq_desc)}
      IN  IF ~rd.ok
          THEN [res |-> "GuestMemory", mem |-> m, reads |-> rds, writes |-> {}]
          ELSE IF invalid_queue_pairs(queue_pairs)
          THEN [res |-> "InvalidQueuePairsNum", mem |-> m, reads |-> rds, writes |-> {}]
          ELSE IF ~has_next(mq_desc)
          THEN no_next_descriptor(m, rds)
          ELSE
            LET status_desc == next_descriptor(mq_desc)
                wr == write_obj_u8(m, 0, desc_addr(status_desc))
            IN  IF ~wr.ok
                THEN [res |-> "GuestMemory", mem |-> m, reads |-> rds, writes |-> {}]
                ELSE [res |-> "Ok", mem |-> wr.mem, reads |-> rds,
                      writes |-> {<<desc_addr(status_desc), 0>>}]

----------------------------------------------------------------------------
(* CtrlVirtio::process_cvq *)

\* faulty variant: the two header bytes are taken in the opposite order
ctrl_class_swapped(ctrl_hdr) == ctrl_hdr \div U8

\* ctrl_hdr_v[0]: byte 0 of the header as it lies in memory
ctrl_class(ctrl_hdr) == ctrl_hdr % U8

\* ctrl_hdr_v[1]: byte 1 of the header as it lies in memory
ctrl_cmd(ctrl_hdr) == ctrl_hdr \div U8

\* faulty variant: the cause of a process_mq failure is handed on
mq_failure_passthrough(e) == e

\* `if let Err(_e) = self.process_mq(..) { return Err(Error::FailedProcessMQ) }`
mq_failure(e) == "FailedProcessMQ"

\* the result of a call: res is "Ok" or the Error variant returned; posted is
\* the number of add_used calls; mq is the result of process_mq, if called
CvqReturn(res, q, m, chain, reads, writes, posted, mq) ==
    [res |-> res, queue |-> q, mem |-> m, chain |-> chain, reads |-> reads,
     writes |-> writes, posted |-> posted, mq |-> mq]

\* faulty variant: without a chain the call falls through to the posting loop
\* with the zero-initialised used_desc_heads[0]
no_avail_desc_posts(q, m) ==
    CvqReturn("InvalidDesc", update_avail_event(add_used(q, 0, 0)), m, NoChain,
              {}, {}, 1, "NotCalled")

\* `else { return Err(Error::InvalidDesc) }`: the queue had no available chain
no_avail_desc(q, m) ==
    CvqReturn("InvalidDesc", q, m, NoChain, {}, {}, 0, "NotCalled")

process_cvq(q, m) ==
    LET it == iter_next(q)
        avail_desc == it.chain
        \* used_desc_heads[..used_count], recorded before the dispatch
        used_desc_heads == << [id |-> avail_desc.index, len |-> desc_len(avail_desc)] >>
        early(res, reads, mq) ==
            CvqReturn(res, it.queue, m, avail_desc, reads, {}, 0, mq)
    IN  IF ~it.some
        THEN no_avail_desc(q, m)
        ELSE
          LET rd == read_obj_u16(m, desc_addr(avail_desc))
              ctrl_hdr == rd.val
              class == ctrl_class(ctrl_hdr)
              cmd == ctrl_cmd(ctrl_hdr)
              hdr_reads == {desc_addr(avail_desc)}
          IN  IF ~rd.ok
              THEN early("GuestMemory", hdr_reads, "NotCalled")
              ELSE IF class = VIRTIO_NET_CTRL_MQ
              THEN
                IF cmd # VIRTIO_NET_CTRL_MQ_VQ_PAIRS_SET
                THEN early("InvalidCtlCmd", hdr_reads, "NotCalled")
                ELSE
                  LET r == process_mq(m, avail_desc)
                  IN  IF r.res # "Ok"
                      THEN early(mq_failure(r.res), hdr_reads \cup r.reads, r.res)
                      ELSE
                        \* the loop over used_desc_heads[..used_count]
                        LET q1 == add_used(it.queue, used_desc_heads[1].id,
                                           used_desc_heads[1].len)
                            q2 == update_avail_event(q1)
                        IN  CvqReturn("Ok", q2, r.mem, avail_desc,
                                      hdr_reads \cup r.reads, r.writes,
                                      Len(used_desc_heads), r.res)
              ELSE early("InvalidCtlClass", hdr_reads, "NotCalled")

----------------------------------------------------------------------------
(* build_net_config_space_with_mq *)

\* faulty variant: the feature bit is toggled (^=) rather than set (|=)
build_net_config_space_with_mq_toggle(cfg, num_queues, feats) ==
    LET num_queue_pairs == (num_queues \div 2) % U16
    IN  IF (num_queue_pairs >= VIRTIO_NET_CTRL_MQ_VQ_PAIRS_MIN % U16)
           /\ (num_queue_pairs <= VIRTIO_NET_CTRL_MQ_VQ_PAIRS_MAX % U16)
        THEN [config |-> [cfg EXCEPT !.max_virtqueue_pairs = num_queue_pairs],
              avail_features |-> (feats \ {VIRTIO_NET_F_MQ})
                                 \cup ({VIRTIO_NET_F_MQ} \ feats)]
        ELSE [config |-> cfg, avail_features |-> feats]

build_net_config_space_with_mq(cfg, num_queues, feats) ==
    LET num_queue_pairs == (num_queues \div 2) % U16
    IN  IF (num_queue_pairs >= VIRTIO_NET_CTRL_MQ_VQ_PAIRS_MIN % U16)
           /\ (num_queue_pairs <= VIRTIO_NET_CTRL_MQ_VQ_PAIRS_MAX % U16)
        THEN [config |-> [cfg EXCEPT !.max_virtqueue_pairs = num_queue_pairs],
              avail_features |-> feats \cup {VIRTIO_NET_F_MQ}]
        ELSE [config |-> cfg, avail_features |-> feats]

\* VirtioNetConfig::default()
DefaultConfig == [max_virtqueue_pairs |-> 0]

\* no build call recorded yet
NoBuild == [called |-> FALSE, num_queues |-> 0, config |-> DefaultConfig,
            avail_features |-> {}, repeat |-> FALSE]

----------------------------------------------------------------------------
(* The guest driver: descriptor chains placed on the control queue *)

\* which descriptors a chain has (1 to 3) and whether each one's address is mapped
Shapes == UNION {[1..n -> BOOLEAN] : n \in 1..3}
Classes == {VIRTIO_NET_CTRL_MQ, U8 - 1}
Cmds == {VIRTIO_NET_CTRL_MQ_VQ_PAIRS_SET, VIRTIO_NET_CTRL_MQ_VQ_PAIRS_SET + 1}
Pairs == {VIRTIO_NET_CTRL_MQ_VQ_PAIRS_MIN - 1, VIRTIO_NET_CTRL_MQ_VQ_PAIRS_MIN,
          VIRTIO_NET_CTRL_MQ_VQ_PAIRS_MAX, VIRTIO_NET_CTRL_MQ_VQ_PAIRS_MAX + 1}

Mapped(shape, i) == i <= Len(shape) /\ shape[i]

\* the payloads the guest tries: every boundary value behind a set-pairs header,
\* a valid count behind any other header
PayloadsFor(shape, class, cmd) ==
    IF ~Mapped(shape, 2) THEN {0}
    ELSE IF Mapped(shape, 1) /\ class = VIRTIO_NET_CTRL_MQ
            /\ cmd = VIRTIO_NET_CTRL_MQ_VQ_PAIRS_SET
    THEN Pairs
    ELSE {VIRTIO_NET_CTRL_MQ_VQ_PAIRS_MIN}

BufAddr(k, i) == IF i = 1 THEN HdrAddr(k) ELSE IF i = 2 THEN PayAddr(k) ELSE StatAddr(k)
BufLen(i) == IF i = 3 THEN 1 ELSE 2

\* the chain with head index k and the given shape
GuestChain(k, shape) ==
    [index |-> k, pos |-> 1,
     descs |-> [i \in 1..Len(shape) |->
                  [addr |-> IF shape[i] THEN BufAddr(k, i) ELSE BadAddr,
                   len |-> BufLen(i)]]]

\* guest memory after the guest filled the mapped buffers of chain k
GuestFill(m, k, shape, class, cmd, n) ==
    [a \in Addr |->
        IF Mapped(shape, 1) /\ a = HdrAddr(k) THEN class
        ELSE IF Mapped(shape, 1) /\ a = HdrAddr(k) + 1 THEN cmd
        ELSE IF Mapped(shape, 2) /\ a = PayAddr(k) THEN n % U8
        ELSE IF Mapped(shape, 2) /\ a = PayAddr(k) + 1 THEN n \div U8
        ELSE IF Mapped(shape, 3) /\ a = StatAddr(k) THEN StatusInit
        ELSE m[a]]

\* the guest publishes one more chain on the available ring
GuestPublish(shape, class, cmd, n) ==
    LET k == Len(queue.avail)
    IN  /\ mem' = GuestFill(mem, k, shape, class, cmd, n)
        /\ queue' = [queue EXCEPT !.avail = Append(@, GuestChain(k, shape))]

NoCall == [res |-> "None", chain |-> NoChain, reads |-> {}, writes |-> {},
           posted |-> 0, mq |-> "NotCalled"]

\* the observable outcome of a process_cvq call
Outcome(r) == [res |-> r.res, chain |-> r.chain, reads |-> r.reads,
               writes |-> r.writes, posted |-> r.posted, mq |-> r.mq]

EmptyQueue == [avail |-> << >>, next_avail |-> 0, used |-> << >>, avail_event |-> 0]

----------------------------------------------------------------------------
(* The command processor driven by a synchronous caller *)

InitNumQueues == {0, 4}

LoopOff ==
    /\ pc = "off" /\ events = << >> /\ queue_evt = 0 /\ kill_evt = 0
    /\ pause_evt = 0 /\ paused = FALSE /\ token = FALSE /\ mgmt = "idle"
    /\ epoll_file = "none"
    /\ obs = [start_paused |-> FALSE, seen_false |-> FALSE, touched |-> FALSE,
              resumed_pending |-> FALSE]

InitCvq ==
    /\ mem = [a \in Addr |-> 0]
    /\ queue = EmptyQueue
    /\ last = NoCall
    /\ \E nq \in InitNumQueues :
         LET b == build_net_config_space_with_mq(DefaultConfig, nq, {})
         IN  config = b.config /\ avail_features = b.avail_features
    /\ built = NoBuild
    /\ LoopOff

CvqGuestAdd ==
    /\ Len(queue.avail) < MaxChains
    /\ \E shape \in Shapes :
       \E class \in (IF Mapped(shape, 1) THEN Classes ELSE {0}) :
       \E cmd \in (IF Mapped(shape, 1) THEN Cmds ELSE {0}) :
       \E n \in PayloadsFor(shape, class, cmd) :
          GuestPublish(shape, class, cmd, n)
    /\ UNCHANGED <<last, cfgVars, loopVars>>

CvqCall ==
    /\ LET r == process_cvq(queue, mem)
       IN  /\ queue' = r.queue
           /\ mem' = r.mem
           /\ last' = Outcome(r)
    /\ UNCHANGED <<cfgVars, loopVars>>

NextCvq == CvqGuestAdd \/ CvqCall

SpecCvq == InitCvq /\ [][NextCvq]_vars

----------------------------------------------------------------------------
(* The configuration builder applied by the device constructors *)

\* queue counts handed in (usize): around the range bounds, and with a half
\* beyond the 16 bits of max_virtqueue_pairs
NumQueues ==
    {0, 1, 2, 3, 8,
     2 * VIRTIO_NET_CTRL_MQ_VQ_PAIRS_MAX, 2 * VIRTIO_NET_CTRL_MQ_VQ_PAIRS_MAX + 1,
     2 * VIRTIO_NET_CTRL_MQ_VQ_PAIRS_MAX + 2,
     2 * U16, 2 * U16 + 1, 2 * U16 + 2, 2 * U16 + 8,
     2 * (U16 + VIRTIO_NET_CTRL_MQ_VQ_PAIRS_MAX),
     2 * (U16 + VIRTIO_NET_CTRL_MQ_VQ_PAIRS_MAX) + 2}

\* configurations and feature words the builder is handed
InitConfigs == [max_virtqueue_pairs : {0, 7}, mtu : {0, 1500}]
InitFeatures == SUBSET {VIRTIO_NET_F_MAC, VIRTIO_NET_F_MQ}

InitCfg ==
    /\ mem = [a \in Addr |-> 0]
    /\ queue = EmptyQueue
    /\ last = NoCall
    /\ config \in InitConfigs
    /\ avail_features \in InitFeatures
    /\ built = NoBuild
    /\ LoopOff

\* one call build_net_config_space_with_mq(&mut config, num_queues, &mut avail_features)
BuildConfig ==
    /\ \E num_queues \in NumQueues :
         LET b == build_net_config_space_with_mq(config, num_queues, avail_features)
         IN  /\ config' = b.config
             /\ avail_features' = b.avail_features
             /\ built' = [called |-> TRUE, num_queues |-> num_queues,
                          config |-> config, avail_features |-> avail_features,
                          repeat |-> built.called /\ built.num_queues = num_queues]
    /\ UNCHANGED <<cvqVars, loopVars>>

NextCfg == BuildConfig

SpecCfg == InitCfg /\ [][NextCfg]_vars

----------------------------------------------------------------------------
(* NetCtrlEpollHandler::run_ctrl: the worker thread *)

\* positions inside the 'epoll loop
Running == {"wait", "ctrl_drain", "ctrl_cvq", "break", "pause_load",
            "pause_park", "pause_drain"}
\* positions after run_ctrl was left
Returned == {"returned_ok", "returned_err", "panicked"}

\* every order in which the kernel may report the ready sources
Orders(S) == {o \in [1..Cardinality(S) -> S] : \A i, j \in DOMAIN o : i # j => o[i] # o[j]}

\* the sources whose eventfd counter is non-zero (level-triggered EPOLLIN)
Ready == (IF queue_evt > 0 THEN {CTRL_QUEUE_EVENT} ELSE {})
         \cup (IF kill_evt > 0 THEN {KILL_EVENT} ELSE {})
         \cup (IF pause_evt > 0 THEN {PAUSE_EVENT} ELSE {})

\* `match ev_type`: the arm an event selects
ArmOf(ev_type) ==
    IF ev_type = CTRL_QUEUE_EVENT THEN "ctrl_drain"
    ELSE IF ev_type = KILL_EVENT THEN "break"
    ELSE "pause_load"

\* `for event in events.iter().take(num_events)`: the next event's arm, or
\* back to epoll::wait when the batch is exhausted
ForNext(evs) ==
    IF evs = << >>
    THEN [pc |-> "wait", events |-> << >>]
    ELSE [pc |-> ArmOf(Head(evs)), events |-> Tail(evs)]

\* faulty variant: a process_cvq error is handed to the caller of run_ctrl
AfterCvq_propagate(res, evs) ==
    IF res = "Ok" THEN ForNext(evs) ELSE [pc |-> "returned_err", events |-> << >>]

\* `if let Err(e) = self.ctrl_q.process_cvq(&mem) { error!(..) }`: logged, the
\* for loop goes on
AfterCvq(res, evs) == ForNext(evs)

\* epoll::create(true) and File::from_raw_fd
EpollCreate ==
    /\ pc = "create"
    /\ \/ pc' = "register_ctrl" /\ epoll_file' = "open"
       \/ pc' = "returned_err" /\ UNCHANGED epoll_file
    /\ UNCHANGED <<cvqVars, cfgVars, events, queue_evt, kill_evt, pause_evt, paused,
                   token, mgmt, obs>>

\* the position after a successful register_listener call
AfterRegister(p) ==
    IF p = "register_ctrl" THEN "register_kill"
    ELSE IF p = "register_kill" THEN "register_pause"
    ELSE "init_load"

\* the three register_listener(..).unwrap() calls: a failure panics, and the
\* unwinding drops epoll_file
RegisterListener ==
    /\ pc \in {"register_ctrl", "register_kill", "register_pause"}
    /\ \/ pc' = AfterRegister(pc) /\ UNCHANGED epoll_file
       \/ pc' = "panicked" /\ epoll_file' = "closed"
    /\ UNCHANGED <<cvqVars, cfgVars, events, queue_evt, kill_evt, pause_evt,
                   paused, token, mgmt, obs>>

\* faulty variant: the flag is not checked before the loop is entered
InitialPauseCheck_skipped ==
    /\ pc = "init_load"
    /\ pc' = "wait"
    /\ UNCHANGED <<cvqVars, cfgVars, events, queue_evt, kill_evt, pause_evt,
                   paused, token, mgmt, epoll_file, obs>>

\* `while paused.load(Ordering::SeqCst)` before the loop
InitialPauseCheck ==
    /\ pc = "init_load"
    /\ IF paused
       THEN pc' = "init_park" /\ UNCHANGED obs
       ELSE pc' = "wait" /\ obs' = [obs EXCEPT !.seen_false = TRUE]
    /\ UNCHANGED <<cvqVars, cfgVars, events, queue_evt, kill_evt, pause_evt,
                   paused, token, mgmt, epoll_file>>

\* faulty variant: `if paused.load() { park() }` in the PAUSE_EVENT arm, the
\* flag is not loaded again after park() returns
ParkWoken_trusting ==
    /\ pc \in {"init_park", "pause_park"}
    /\ token
    /\ token' = FALSE
    /\ pc' = IF pc = "init_park" THEN "init_load" ELSE "pause_drain"
    /\ obs' = [obs EXCEPT !.resumed_pending =
                 @ \/ (pc = "pause_park" /\ queue_evt > 0 /\ ~paused)]
    /\ UNCHANGED <<cvqVars, cfgVars, events, queue_evt, kill_evt, pause_evt,
                   paused, mgmt, epoll_file>>

\* thread::park() returns because the token was set by unpark
ParkWoken ==
    /\ pc \in {"init_park", "pause_park"}
    /\ token
    /\ token' = FALSE
    /\ pc' = IF pc = "init_park" THEN "init_load" ELSE "pause_load"
    /\ obs' = [obs EXCEPT !.resumed_pending =
                 @ \/ (pc = "pause_park" /\ queue_evt > 0 /\ ~paused)]
    /\ UNCHANGED <<cvqVars, cfgVars, events, queue_evt, kill_evt, pause_evt,
                   paused, mgmt, epoll_file>>

\* thread::park() returns spuriously
ParkSpurious ==
    /\ pc \in {"init_park", "pause_park"}
    /\ ~token
    /\ pc' = IF pc = "init_park" THEN "init_load" ELSE "pause_load"
    /\ UNCHANGED <<cvqVars, cfgVars, events, queue_evt, kill_evt, pause_evt,
                   paused, token, mgmt, epoll_file, obs>>

\* epoll::wait returns Ok(num_events): every ready source, in some order
WaitOk ==
    /\ pc = "wait"
    /\ Ready # {}
    /\ \E o \in Orders(Ready) :
         /\ pc' = ForNext(o).pc
         /\ events' = ForNext(o).events
    /\ obs' = [obs EXCEPT !.touched = TRUE]
    /\ UNCHANGED <<cvqVars, cfgVars, queue_evt, kill_evt, pause_evt, paused,
                   token, mgmt, epoll_file>>

\* epoll::wait fails with ErrorKind::Interrupted: `continue`
WaitInterrupted ==
    /\ pc = "wait"
    /\ UNCHANGED vars

\* faulty variant: the raw descriptor is not owned by a File, the error return
\* leaves it open
WaitFailed_leak ==
    /\ pc = "wait"
    /\ pc' = "returned_err"
    /\ UNCHANGED <<cvqVars, cfgVars, events, queue_evt, kill_evt, pause_evt,
                   paused, token, mgmt, epoll_file, obs>>

\* epoll::wait fails otherwise: return Err(DeviceError::EpollWait(e)), and the
\* drop of epoll_file
WaitFailed ==
    /\ pc = "wait"
    /\ pc' = "returned_err"
    /\ epoll_file' = "closed"
    /\ UNCHANGED <<cvqVars, cfgVars, events, queue_evt, kill_evt, pause_evt,
                   paused, token, mgmt, obs>>

\* faulty variant: a failed read of the eventfd ends the arm, process_cvq is
\* not called for this event
CtrlDrain_skips ==
    /\ pc = "ctrl_drain"
    /\ \/ /\ queue_evt' = 0
          /\ pc' = "ctrl_cvq"
          /\ UNCHANGED events
       \/ /\ UNCHANGED queue_evt
          /\ pc' = ForNext(events).pc
          /\ events' = ForNext(events).events
    /\ obs' = [obs EXCEPT !.touched = TRUE]
    /\ UNCHANGED <<cvqVars, cfgVars, kill_evt, pause_evt, paused,
                   token, mgmt, epoll_file>>

\* CTRL_QUEUE_EVENT arm, first half: self.ctrl_q.queue_evt.read(), an error
\* of which is logged
CtrlDrain ==
    /\ pc = "ctrl_drain"
    /\ \/ queue_evt' = 0
       \/ UNCHANGED queue_evt
    /\ pc' = "ctrl_cvq"
    /\ obs' = [obs EXCEPT !.touched = TRUE]
    /\ UNCHANGED <<cvqVars, cfgVars, events, kill_evt, pause_evt, paused,
                   token, mgmt, epoll_file>>

\* CTRL_QUEUE_EVENT arm, second half: self.ctrl_q.process_cvq(&mem)
CtrlCvq ==
    /\ pc = "ctrl_cvq"
    /\ LET r == process_cvq(queue, mem)
           n == AfterCvq(r.res, events)
       IN  /\ queue' = r.queue
           /\ mem' = r.mem
           /\ last' = Outcome(r)
           /\ pc' = n.pc
           /\ events' = n.events
    /\ obs' = [obs EXCEPT !.touched = TRUE, !.resumed_pending = FALSE]
    /\ UNCHANGED <<cfgVars, queue_evt, kill_evt, pause_evt, paused, token,
                   mgmt, epoll_file>>

\* KILL_EVENT arm: break 'epoll, then Ok(()) and the drop of epoll_file
KillBreak ==
    /\ pc = "break"
    /\ pc' = "returned_ok"
    /\ events' = << >>
    /\ epoll_file' = "closed"
    /\ UNCHANGED <<cvqVars, cfgVars, queue_evt, kill_evt, pause_evt, paused,
                   token, mgmt, obs>>

\* faulty variant: `while !paused.load(Ordering::SeqCst)` in the PAUSE_EVENT arm
PauseCheck_inverted ==
    /\ pc = "pause_load"
    /\ IF ~paused
       THEN pc' = "pause_park" /\ UNCHANGED obs
       ELSE pc' = "pause_drain" /\ obs' = [obs EXCEPT !.seen_false = TRUE]
    /\ UNCHANGED <<cvqVars, cfgVars, events, queue_evt, kill_evt, pause_evt,
                   paused, token, mgmt, epoll_file>>

\* PAUSE_EVENT arm: `while paused.load(Ordering::SeqCst)`
PauseCheck ==
    /\ pc = "pause_load"
    /\ IF paused
       THEN pc' = "pause_park" /\ UNCHANGED obs
       ELSE pc' = "pause_drain" /\ obs' = [obs EXCEPT !.seen_false = TRUE]
    /\ UNCHANGED <<cvqVars, cfgVars, events, queue_evt, kill_evt, pause_evt,
                   paused, token, mgmt, epoll_file>>

\* faulty variant: the drain reads the control-queue eventfd
PauseDrain_wrongfd ==
    /\ pc = "pause_drain"
    /\ \/ queue_evt' = 0
       \/ UNCHANGED queue_evt
    /\ pc' = ForNext(events).pc
    /\ events' = ForNext(events).events
    /\ obs' = [obs EXCEPT !.touched = TRUE]
    /\ UNCHANGED <<cvqVars, cfgVars, pause_evt, kill_evt, paused, token, mgmt,
                   epoll_file>>

\* PAUSE_EVENT arm: `let _ = self.pause_evt.read()`, then the for loop goes on
PauseDrain ==
    /\ pc = "pause_drain"
    /\ \/ pause_evt' = 0
       \/ UNCHANGED pause_evt
    /\ pc' = ForNext(events).pc
    /\ events' = ForNext(events).events
    /\ obs' = [obs EXCEPT !.touched = TRUE]
    /\ UNCHANGED <<cvqVars, cfgVars, queue_evt, kill_evt, paused, token, mgmt,
                   epoll_file>>

Worker ==
    \/ EpollCreate \/ RegisterListener \/ InitialPauseCheck \/ ParkWoken
    \/ WaitOk \/ CtrlDrain \/ CtrlCvq \/ KillBreak \/ PauseCheck \/ PauseDrain

----------------------------------------------------------------------------
(* The device-management layer: pause, resume and drop of the device *)

\* pause, first half: paused.store(true)
PauseStore ==
    /\ mgmt = "idle" /\ ~paused /\ kill_evt = 0 /\ pc \notin Returned
    /\ pause_evt < MaxEvt
    /\ paused' = TRUE
    /\ mgmt' = "pausing"
    /\ UNCHANGED <<cvqVars, cfgVars, pc, events, queue_evt, kill_evt,
                   pause_evt, token, epoll_file, obs>>

\* pause, second half: pause_evt.write(1)
PauseSignal ==
    /\ mgmt = "pausing"
    /\ pause_evt' = pause_evt + 1
    /\ mgmt' = "idle"
    /\ UNCHANGED <<cvqVars, cfgVars, pc, events, queue_evt, kill_evt, paused,
                   token, epoll_file, obs>>

\* resume, first half: paused.store(false)
ResumeStore ==
    /\ mgmt = "idle" /\ paused /\ kill_evt = 0 /\ pc \notin Returned
    /\ paused' = FALSE
    /\ mgmt' = "resuming"
    /\ UNCHANGED <<cvqVars, cfgVars, pc, events, queue_evt, kill_evt,
                   pause_evt, token, epoll_file, obs>>

\* resume, second half: thread.unpark()
ResumeUnpark ==
    /\ mgmt = "resuming"
    /\ token' = TRUE
    /\ mgmt' = "idle"
    /\ UNCHANGED <<cvqVars, cfgVars, pc, events, queue_evt, kill_evt,
                   pause_evt, paused, epoll_file, obs>>

\* drop of the device: kill_evt.write(1)
KillRaise ==
    /\ kill_evt = 0 /\ pc \notin Returned
    /\ kill_evt' = 1
    /\ UNCHANGED <<cvqVars, cfgVars, pc, events, queue_evt, pause_evt, paused,
                   token, mgmt, epoll_file, obs>>

----------------------------------------------------------------------------
(* The guest driver in front of the running device *)

\* the well-formed set-pairs command
SetPairsCommand ==
    [shape |-> <<TRUE, TRUE, TRUE>>, class |-> VIRTIO_NET_CTRL_MQ,
     cmd |-> VIRTIO_NET_CTRL_MQ_VQ_PAIRS_SET, n |-> VIRTIO_NET_CTRL_MQ_VQ_PAIRS_MIN]

\* one command per outcome of process_cvq
LoopCommands ==
    { SetPairsCommand,
      [shape |-> <<FALSE>>, class |-> 0, cmd |-> 0, n |-> 0],
      [shape |-> <<TRUE, TRUE, TRUE>>, class |-> U8 - 1,
       cmd |-> VIRTIO_NET_CTRL_MQ_VQ_PAIRS_SET, n |-> VIRTIO_NET_CTRL_MQ_VQ_PAIRS_MIN],
      [shape |-> <<TRUE, TRUE, TRUE>>, class |-> VIRTIO_NET_CTRL_MQ,
       cmd |-> VIRTIO_NET_CTRL_MQ_VQ_PAIRS_SET + 1, n |-> VIRTIO_NET_CTRL_MQ_VQ_PAIRS_MIN],
      [shape |-> <<TRUE>>, class |-> VIRTIO_NET_CTRL_MQ,
       cmd |-> VIRTIO_NET_CTRL_MQ_VQ_PAIRS_SET, n |-> 0] }

\* the guest publishes a chain on the control queue
GuestAdd ==
    /\ Len(queue.avail) < MaxLoopChains /\ pc \notin Returned
    /\ \E c \in LoopCommands : GuestPublish(c.shape, c.class, c.cmd, c.n)
    /\ UNCHANGED <<last, cfgVars, loopVars>>

\* the guest raises the control-queue notification: queue_evt.write(1)
GuestKick ==
    /\ queue_evt < MaxEvt /\ pc \notin Returned
    /\ queue_evt' = queue_evt + 1
    /\ UNCHANGED <<cvqVars, cfgVars, pc, events, kill_evt, pause_evt, paused,
                   token, mgmt, epoll_file, obs>>

----------------------------------------------------------------------------
(* The event loop with its environment *)

Init ==
    /\ mem = [a \in Addr |-> 0]
    /\ queue = EmptyQueue
    /\ last = NoCall
    /\ config = DefaultConfig
    /\ avail_features = {}
    /\ built = NoBuild
    /\ pc = "create"
    /\ events = << >>
    /\ queue_evt = 0 /\ kill_evt = 0 /\ pause_evt = 0
    /\ paused \in BOOLEAN
    /\ token = FALSE
    /\ mgmt = "idle"
    /\ epoll_file = "none"
    /\ obs = [start_paused |-> paused, seen_false |-> FALSE, touched |-> FALSE,
              resumed_pending |-> FALSE]

Next ==
    \/ Worker
    \/ ParkSpurious \/ WaitInterrupted \/ WaitFailed
    \/ PauseStore \/ PauseSignal \/ ResumeStore \/ ResumeUnpark \/ KillRaise
    \/ GuestAdd \/ GuestKick

Spec == Init /\ [][Next]_vars

\* the guest publishes a well-formed command and raises the notification for it
GuestSubmit ==
    /\ Len(queue.avail) < MaxLoopChains /\ pc \notin Returned
    /\ queue_evt < MaxEvt
    /\ LET c == SetPairsCommand
       IN  GuestPublish(c.shape, c.class, c.cmd, c.n)
    /\ queue_evt' = queue_evt + 1
    /\ UNCHANGED <<last, cfgVars, pc, events, kill_evt, pause_evt, paused,
                   token, mgmt, epoll_file, obs>>

\* the event loop in front of a guest that sends well-formed commands and
\* notifies once per published chain
FairNext ==
    \/ Worker
    \/ ParkSpurious \/ WaitInterrupted \/ WaitFailed
    \/ PauseStore \/ PauseSignal \/ ResumeStore \/ ResumeUnpark \/ KillRaise
    \/ GuestSubmit

\* the worker thread is scheduled, a started management operation completes
Fairness ==
    /\ WF_vars(Worker)
    /\ WF_vars(PauseSignal \/ ResumeUnpark)

FairSpec == Init /\ [][FairNext]_vars /\ Fairness

\* the guest publishes one more well-formed command and raises the notification
\* for it, without waiting for the completion of the previous one
GuestSubmitNext ==
    /\ Len(queue.avail) < MaxSubmits /\ pc \notin Returned
    /\ queue_evt < MaxEvt
    /\ LET c == SetPairsCommand
       IN  GuestPublish(c.shape, c.class, c.cmd, c.n)
    /\ queue_evt' = queue_evt + 1
    /\ UNCHANGED <<last, cfgVars, pc, events, kill_evt, pause_evt, paused,
                   token, mgmt, epoll_file, obs>>

\* the event loop in front of a guest that has several commands in flight,
\* each followed by its notification
NotifyNext ==
    \/ Worker
    \/ ParkSpurious \/ WaitInterrupted \/ WaitFailed
    \/ PauseStore \/ PauseSignal \/ ResumeStore \/ ResumeUnpark \/ KillRaise
    \/ GuestSubmitNext

SpecNotify == Init /\ [][NotifyNext]_vars

----------------------------------------------------------------------------
(* Properties of the command processor *)

\* a step in which process_cvq takes a chain from the available ring
TakesChain == queue'.next_avail = queue.next_avail + 1
\* the chain such a step takes
HeadChain == queue.avail[queue.next_avail + 1]

HdrMapped(c) == c.descs[1].addr \in Addr
HdrClass(c) == mem[c.descs[1].addr]
HdrCmd(c) == mem[c.descs[1].addr + 1]
HasPayload(c) == Len(c.descs) >= 2
PayMapped(c) == HasPayload(c) /\ c.descs[2].addr \in Addr
PayVal(c) == mem[c.descs[2].addr] + U8 * mem[c.descs[2].addr + 1]
HasStatus(c) == Len(c.descs) >= 3
StatMapped(c) == HasStatus(c) /\ c.descs[3].addr \in Addr
InRange(n) == VIRTIO_NET_CTRL_MQ_VQ_PAIRS_MIN <= n /\ n <= VIRTIO_NET_CTRL_MQ_VQ_PAIRS_MAX
SetPairsHeader(c) ==
    /\ HdrMapped(c)
    /\ HdrClass(c) = VIRTIO_NET_CTRL_MQ
    /\ HdrCmd(c) = VIRTIO_NET_CTRL_MQ_VQ_PAIRS_SET

\* C1 (as claimed): every chain process_cvq has taken from the available ring
\* has exactly one used-ring entry with its head index, whether the command
\* succeeded or failed.
C1_OneUsedPerTakenChain ==
    \A k \in 1..queue.next_avail :
        Cardinality({i \in DOMAIN queue.used :
                        queue.used[i].id = queue.avail[k].index}) = 1

\* C7: a set-pairs command with a pair count n in [MIN, MAX], a readable
\* payload and a writable status buffer returns Ok, changes guest memory in
\* exactly one byte, the status byte, which becomes 0, and leaves the feature
\* bits and the configuration structure as they were.
C7_SetPairsInRange ==
    [][ (TakesChain /\ SetPairsHeader(HeadChain) /\ PayMapped(HeadChain)
         /\ InRange(PayVal(HeadChain)) /\ StatMapped(HeadChain))
        => /\ last'.res = "Ok"
           /\ mem' = [mem EXCEPT ![HeadChain.descs[3].addr] = 0]
           /\ last'.writes = {<<HeadChain.descs[3].addr, 0>>}
           /\ config' = config
           /\ avail_features' = avail_features ]_vars

C7_Witness ==
    /\ last.res = "Ok"
    /\ PayVal(last.chain) = VIRTIO_NET_CTRL_MQ_VQ_PAIRS_MAX
    /\ mem[last.chain.descs[3].addr] = 0
    /\ config.max_virtqueue_pairs = 2

\* C8: a set-pairs command whose pair count is below MIN or above MAX makes
\* process_mq fail with InvalidQueuePairsNum and guest memory is not written,
\* with or without a status descriptor in the chain.
C8_SetPairsOutOfRange ==
    [][ (TakesChain /\ SetPairsHeader(HeadChain) /\ PayMapped(HeadChain)
         /\ ~InRange(PayVal(HeadChain)))
        => /\ last'.mq = "InvalidQueuePairsNum"
           /\ last'.res # "Ok"
           /\ last'.writes = {}
           /\ mem' = mem ]_vars

C8_Witness ==
    /\ last.mq = "InvalidQueuePairsNum"
    /\ PayVal(last.chain) = VIRTIO_NET_CTRL_MQ_VQ_PAIRS_MAX + 1
    /\ StatMapped(last.chain)
    /\ mem[last.chain.descs[3].addr] = StatusInit

\* C9: a readable header with a class other than MQ fails with InvalidCtlClass
\* whatever the command code; class MQ with a code other than VQ_PAIRS_SET
\* fails with InvalidCtlCmd; in both cases only the header is read and guest
\* memory is not written.
C9_DispatchValidation ==
    [][ (TakesChain /\ HdrMapped(HeadChain)
         /\ ~(HdrClass(HeadChain) = VIRTIO_NET_CTRL_MQ
              /\ HdrCmd(HeadChain) = VIRTIO_NET_CTRL_MQ_VQ_PAIRS_SET))
        => /\ last'.res = (IF HdrClass(HeadChain) # VIRTIO_NET_CTRL_MQ
                           THEN "InvalidCtlClass" ELSE "InvalidCtlCmd")
           /\ last'.reads = {HeadChain.descs[1].addr}
           /\ last'.mq = "NotCalled"
           /\ last'.writes = {}
           /\ mem' = mem ]_vars

C9_Witness ==
    /\ last.res = "InvalidCtlCmd"
    /\ PayMapped(last.chain) /\ StatMapped(last.chain)
    /\ InRange(PayVal(last.chain))
    /\ mem[last.chain.descs[3].addr] = StatusInit

\* C10: whatever makes process_mq fail (no payload descriptor, no status
\* descriptor, payload read fault, pair count out of range, status write
\* fault), process_cvq returns FailedProcessMQ.
C10_MqFailureCollapsed ==
    [][ (TakesChain /\ SetPairsHeader(HeadChain)
         /\ (\/ ~HasPayload(HeadChain)
             \/ ~PayMapped(HeadChain)
             \/ ~InRange(PayVal(HeadChain))
             \/ ~HasStatus(HeadChain)
             \/ ~StatMapped(HeadChain)))
        => /\ last'.res = "FailedProcessMQ"
           /\ last'.mq \in {"NoQueuePairsNum", "GuestMemory", "InvalidQueuePairsNum"} ]_vars

C10_Witness ==
    /\ last.res = "FailedProcessMQ"
    /\ last.mq = "GuestMemory"
    /\ PayMapped(last.chain) /\ HasStatus(last.chain) /\ ~StatMapped(last.chain)

----------------------------------------------------------------------------
(* Properties of the event loop *)

\* a step in which the worker calls process_cvq
CallsCvq == pc = "ctrl_cvq" /\ pc' # pc

\* C2 (as claimed): once the kill signal is raised, the worker makes no
\* further call to process_cvq.
C2_NoCvqAfterKill == [][ CallsCvq => kill_evt = 0 ]_vars

\* C3 (as claimed): the worker is never back in the multiplexer wait with the
\* pause notification drained while the flag is true and the pause operation
\* that set it has completed.
C3_NeverPastPause ==
    ~(pc = "wait" /\ paused /\ pause_evt = 0 /\ mgmt = "idle")

\* C4: when the worker is parked in the pause sub-loop with a control-queue
\* notification pending and the resume (flag false, unpark) has been done, the
\* worker comes to call process_cvq, unless the device is paused again, the
\* kill signal is raised or the wait fails.
C4_NotificationKeptAcrossPause ==
    (pc = "pause_park" /\ queue_evt > 0 /\ ~paused /\ token)
      ~> (pc = "ctrl_cvq" \/ paused \/ kill_evt > 0 \/ pc = "returned_err")

C4_Witness ==
    /\ pc = "ctrl_cvq"
    /\ obs.resumed_pending
    /\ kill_evt = 0 /\ ~paused

\* C5: a worker started with the flag true, until it has loaded the flag as
\* false, has waited on no event, drained nothing, called process_cvq never
\* and is outside the 'epoll loop.
C5_StartPausedTouchesNothing ==
    (obs.start_paused /\ ~obs.seen_false)
      => /\ ~obs.touched
         /\ pc \notin Running
         /\ last = NoCall
         /\ queue.next_avail = 0
         /\ queue.used = << >>

C5_Witness ==
    /\ obs.start_paused /\ ~obs.seen_false
    /\ pc = "init_park"
    /\ queue_evt > 0 /\ pause_evt > 0
    /\ Len(queue.avail) > 0

\* C6: the drain of the control-queue notification, failed or not, is
\* followed by the process_cvq call; whatever process_cvq returns, the worker
\* stays in the loop; the loop is left only from the KILL_EVENT arm (Ok) or
\* from a failed wait (Err).
C6_ErrorsKeepLoopRunning ==
    [][ /\ (pc = "ctrl_drain" => pc' \in {"ctrl_drain", "ctrl_cvq"})
        /\ (pc = "ctrl_cvq" => pc' \in Running)
        /\ ((pc \in Running /\ pc' \notin Running)
              => \/ (pc = "break" /\ pc' = "returned_ok")
                 \/ (pc = "wait" /\ pc' = "returned_err")) ]_vars

C6_Witness ==
    /\ last.res = "FailedProcessMQ"
    /\ pc = "wait"
    /\ queue_evt > 0
    /\ kill_evt = 0

----------------------------------------------------------------------------
(* Further properties of the command processor *)

\* a step in which process_cvq is called on a queue with no available chain:
\* the record of the last call or a device-owned part of the queue changes
\* (the guest only ever extends queue.avail)
CallsOnEmpty ==
    /\ queue.next_avail = Len(queue.avail)
    /\ \/ last' # last
       \/ queue'.used # queue.used
       \/ queue'.avail_event # queue.avail_event
       \/ queue'.next_avail # queue.next_avail

\* C11: called with no available chain, process_cvq fails with InvalidDesc,
\* posts no used-ring entry, leaves the available-event index and next_avail
\* alone and neither reads nor writes guest memory.
C11_NoChainChangesNothing ==
    [][ CallsOnEmpty
        => /\ last'.res = "InvalidDesc"
           /\ last'.reads = {} /\ last'.writes = {}
           /\ last'.posted = 0
           /\ queue' = queue
           /\ mem' = mem ]_vars

C11_Witness ==
    /\ last.res = "InvalidDesc"
    /\ queue.next_avail = Len(queue.avail)
    /\ Len(queue.used) = 1
    /\ queue.avail_event = 1

\* C20: a set-pairs chain with no descriptor after the header fails with
\* NoQueuePairsNum and only the header is read; one with a readable in-range
\* payload and no descriptor after it fails with NoQueuePairsNum; neither
\* writes guest memory; a write happens only with an in-range payload and a
\* status descriptor, and it is the status byte.
C20_ChainShape ==
    [][ TakesChain =>
        /\ (SetPairsHeader(HeadChain) /\ ~HasPayload(HeadChain))
             => /\ last'.mq = "NoQueuePairsNum"
                /\ last'.reads = {HeadChain.descs[1].addr}
                /\ last'.writes = {} /\ mem' = mem
        /\ (SetPairsHeader(HeadChain) /\ PayMapped(HeadChain)
            /\ InRange(PayVal(HeadChain)) /\ ~HasStatus(HeadChain))
             => /\ last'.mq = "NoQueuePairsNum"
                /\ last'.writes = {} /\ mem' = mem
        /\ (mem' # mem \/ last'.writes # {})
             => /\ SetPairsHeader(HeadChain) /\ PayMapped(HeadChain)
                /\ InRange(PayVal(HeadChain)) /\ StatMapped(HeadChain)
                /\ last'.writes = {<<HeadChain.descs[3].addr, 0>>} ]_vars

C20_Witness ==
    /\ last.mq = "NoQueuePairsNum"
    /\ Len(last.chain.descs) = 2
    /\ PayMapped(last.chain)
    /\ PayVal(last.chain) = VIRTIO_NET_CTRL_MQ_VQ_PAIRS_MAX
    /\ last.writes = {}

----------------------------------------------------------------------------
(* Properties of the configuration builder *)

\* C12: for every num_queues the builder stores num_queues / 2 into
\* max_virtqueue_pairs and sets VIRTIO_NET_F_MQ exactly when
\* MIN <= num_queues / 2 <= MAX, and otherwise changes nothing; no other
\* configuration field and no other feature bit changes in either case.
C12_PairsStoredIffInRange ==
    built.called =>
        LET pairs == built.num_queues \div 2
        IN  IF /\ pairs >= VIRTIO_NET_CTRL_MQ_VQ_PAIRS_MIN
               /\ pairs <= VIRTIO_NET_CTRL_MQ_VQ_PAIRS_MAX
            THEN /\ config = [built.config EXCEPT !.max_virtqueue_pairs = pairs]
                 /\ avail_features = built.avail_features \cup {VIRTIO_NET_F_MQ}
            ELSE /\ config = built.config
                 /\ avail_features = built.avail_features

\* C13: a second call with the same num_queues leaves the configuration and
\* the feature bits as the first call left them.
C13_Idempotent ==
    built.repeat => /\ config = built.config
                    /\ avail_features = built.avail_features

C13_Witness ==
    /\ built.repeat
    /\ built.num_queues = 8
    /\ config.max_virtqueue_pairs = 4
    /\ VIRTIO_NET_F_MQ \in avail_features
    /\ VIRTIO_NET_F_MAC \in avail_features

----------------------------------------------------------------------------
(* Further properties of the event loop *)

\* C14: once run_ctrl has been left, by the kill return, by the error return
\* of a failed wait or by the panic of a failed registration, the epoll
\* descriptor it created is closed (none is open; none was created when
\* epoll::create itself failed).
C14_EpollClosedOnExit ==
    /\ pc \in Returned => epoll_file # "open"
    /\ pc \in {"returned_ok", "panicked"} => epoll_file = "closed"

C14_Witness ==
    /\ pc = "returned_err"
    /\ epoll_file = "closed"

\* C15: a failure of epoll::create, of one of the three registrations or of
\* epoll::wait (other than an interruption) makes run_ctrl return an Err.
C15_InfrastructureFailuresReturned ==
    [][ (/\ pc \in {"create", "register_ctrl", "register_kill",
                    "register_pause", "wait"}
         /\ pc' \in Returned)
        => pc' = "returned_err" ]_vars
\* the positions of the two `while paused.load() { thread::park() }` loops
InitialPauseLoop == {"init_load", "init_park"}
PauseSubLoop == {"pause_load", "pause_park"}

\* C16: the worker leaves the pause sub-loop of the PAUSE_EVENT arm only by a
\* load of the flag that returns false, and only towards the drain of the
\* pause notification; a return of park() with the flag still true is followed
\* by another park(); inside the sub-loop no process_cvq call is made and
\* the pause notification is not drained.
C16_PauseSubLoopHolds ==
    [][ /\ (pc \in PauseSubLoop /\ pc' \notin PauseSubLoop)
           => (pc = "pause_load" /\ ~paused /\ pc' = "pause_drain")
        /\ (pc = "pause_load" /\ paused /\ pc' # pc) => pc' = "pause_park"
        /\ pc \in PauseSubLoop
           => /\ last' = last
              /\ queue'.next_avail = queue.next_avail
              /\ queue'.used = queue.used
              /\ pause_evt' >= pause_evt ]_vars

\* the worker is parked in the sub-loop with the flag true and a token left
\* by an earlier unpark: park() returns without a resume
C16_Witness ==
    /\ pc = "pause_park"
    /\ paused /\ mgmt = "idle"
    /\ token

\* C17: once the management side has stored false and called unpark, the
\* worker, wherever it stands in the initial or the in-loop pause loop (just
\* before park() included), comes out of it to epoll::wait, unless the flag is
\* set again or the loop is ended by a kill or a wait failure.
C17_ResumeWakesWorker ==
    (pc \in InitialPauseLoop \cup PauseSubLoop /\ ~paused /\ mgmt = "idle")
        ~> (pc = "wait" \/ pc \in Returned \/ paused)

\* the worker has loaded the flag as true and stands at park(); since then the
\* resume has stored false and called unpark
C17_Witness ==
    /\ pc = "pause_park"
    /\ ~paused /\ mgmt = "idle"
    /\ token
    /\ queue_evt = 0
\* C18: every chain the guest made available and notified is consumed by a
\* process_cvq call while the loop runs unpaused, also when notifications
\* coalesce: the worker is never blocked in epoll::wait with no source ready,
\* the device not paused and not killed, while a notified chain is still
\* unconsumed (nothing but a further notification would make it call
\* process_cvq again).
C18_NotifiedChainConsumed ==
    ~ ( /\ pc = "wait"
        /\ Ready = {}
        /\ ~paused /\ mgmt = "idle"
        /\ queue.next_avail < Len(queue.avail) )
\* C19: on a control-queue event the worker first reads the eventfd and
\* then calls process_cvq, once: the read step makes no call and is followed
\* by the call whether or not the read failed; the call is reached only from
\* the read; a call is made only at that position and the arm is left by it.
C19_DrainThenCallOnce ==
    [][ /\ (pc = "ctrl_drain" /\ pc' # pc)
           => /\ pc' = "ctrl_cvq"
              /\ queue_evt' = 0 \/ queue_evt' = queue_evt
              /\ last' = last
              /\ queue' = queue
              /\ events' = events
        /\ (pc' = "ctrl_cvq" /\ pc # pc') => pc = "ctrl_drain"
        /\ (last' # last \/ queue'.next_avail # queue.next_avail)
           => (pc = "ctrl_cvq" /\ pc' # pc)
        /\ (pc = "ctrl_cvq" /\ pc' # pc)
           => /\ last' = Outcome(process_cvq(queue, mem))
              /\ queue'.next_avail <= queue.next_avail + 1
              /\ pc' = ForNext(events).pc
              /\ queue_evt' = queue_evt ]_vars

\* the worker stands at the process_cvq call and the eventfd still counts
\* every notification the guest has written (one per published chain): the
\* read before this call has failed
C19_Witness ==
    /\ pc = "ctrl_cvq"
    /\ queue_evt = Len(queue.avail)
    /\ queue_evt = MaxSubmits
    /\ queue.next_avail = 0

====
